---- MODULE Spec2Model ----
(***************************************************************************)
(* Model of the PWA example workers.                                       *)
(*                                                                         *)
(*   Spec      src/Application/static/worker.js: the connection manager    *)
(*             (connect, the socket handlers, the reconnect timer), send,  *)
(*             broadcast and the page control messages.                    *)
(*   SpecFail  the same program in an environment where client.postMessage *)
(*             may throw for some clients.                                 *)
(*   LiveSpec  Spec with the timer task eventually run.                    *)
(*   SpecStay  the same program with the pages open from the start and     *)
(*             none opening later.                                         *)
(*   SyncSpec  src/Application/static/application.js: the offline action   *)
(*             queue kept in the dynamic cache and doBackgroundSync.       *)
(*   SyncFailSpec  SyncSpec in an environment where processOfflineAction   *)
(*             throws for some actions.                                    *)
(*   SeqSpec   the queue with one drain at a time and no enqueue during a  *)
(*             drain; RaceSpec the same with overlapping drains.           *)
(*   FetchSpec application.js: the fetch listener, handleApiRequest and    *)
(*             handleFetch over the static and dynamic caches; RouteSpec   *)
(*             the listener alone, run for every request.                  *)
(*   AppSpec   application.js: the queue together with the fetch handlers. *)
(*   SwSpec    src/Application/static/sw.js: the queue with the            *)
(*             storeOfflineAction of sw.js.                                *)
(*   InstallSpec  application.js and sw.js: the install event, with the    *)
(*             fetch of any of the static assets failing.                  *)
(*   OldSpec   src/unnamed/part_001: the connection manager of the older   *)
(*             worker.                                                     *)
(*   CacheSpec worker.js: updateCache, the install and activate events and *)
(*             the updateCache control message.                            *)
(*   PageSpec  application.js: the Application of the page: connect,       *)
(*             disconnect, sendMessage and the handlers of its sockets.    *)
(***************************************************************************)
EXTENDS Integers, Sequences, FiniteSets, Bags

\* ---------------------------------------------------------------- bounds
NumClients == 2
MaxSockets == 2
MaxTimers == 2
MaxPending == 2
MaxActions == 3
MaxRevs == 2
MaxFetches == 1

Clients == 1..NumClients
SocketIds == 1..MaxSockets
TimerIds == 1..MaxTimers
\* the payloads of message envelopes: opaque to the worker
Data == {"payload"}
ActionIds == 1..MaxActions
\* the revisions of a resource the origin serves over time
Revs == 1..MaxRevs

\* ------------------------------------------------------------- variables
VARIABLES
  websocket,      \* worker.js: the socket the variable refers to, 0 = null
  connected,      \* worker.js: flag
  connecting,     \* worker.js: flag
  reconnectTimer, \* worker.js: the timer handle, 0 = null
  sockets,        \* platform: readyState of each socket; "none" = close event fired (or never created)
  timers,         \* platform: timer handles that are scheduled and not yet fired or cleared
  clients,        \* platform: the open page contexts
  throwing,       \* platform: clients for which postMessage throws
  pending,        \* the bag of broadcast() calls suspended on clients.matchAll
  lastStatus,     \* page side: the last status envelope each open client received ({} = none)
  effects,        \* the ordered effects of the last handler run, effects[1] names the handler;
                  \* <<>> after a step of the environment that runs no handler
  dynamic,        \* application.js: the dynamic cache partition, its records [key, body] in cache order
  sync,           \* application.js: the doBackgroundSync runs: position, listed keys and actions
  processed,      \* application.js: ids processOfflineAction has completed for
  enqueued,       \* application.js: ids storeOfflineAction has written
  failing,        \* environment: ids of the actions whose replay throws
  statics,        \* application.js: the static cache partition, filled by the install
  fetches,        \* application.js: the fetch handlers in progress, with their started cache writes
  unreachable,    \* environment: the URLs whose network fetch fails
  partitions,     \* platform: the names of the cache partitions that exist (worker.js generations)
  cached,         \* worker.js: the URLs stored in the partition CACHE
  lifecycle,      \* platform: the state of the worker: "parsed", "installing", "installed",
                  \* "activating", "activated"
  skipping,       \* platform: self.skipWaiting() has been called
  claimed,        \* platform: self.clients.claim() has taken effect
  task            \* worker.js: the install, activate or updateCache handler in progress

wvars == <<websocket, connected, connecting, reconnectTimer, sockets, timers,
           clients, throwing, pending, lastStatus, effects>>
cvars == <<unreachable, partitions, cached, lifecycle, skipping, claimed, task>>
svars == <<dynamic, sync, processed, enqueued, failing, statics, fetches, cvars>>
vars == <<websocket, connected, connecting, reconnectTimer, sockets, timers,
          clients, throwing, pending, lastStatus, effects,
          dynamic, sync, processed, enqueued, failing, statics, fetches,
          unreachable, partitions, cached, lifecycle, skipping, claimed, task>>

\* no lifecycle or updateCache handler in progress
NoTask ==
  [kind |-> "none", source |-> 0, i |-> 0, tried |-> {}, deleting |-> {}, claiming |-> FALSE]

\* the lifecycle held still: specifications that run no lifecycle event start
\* here and leave these variables alone
CacheIdle ==
  /\ unreachable = {}
  /\ partitions = {}
  /\ cached = {}
  /\ lifecycle = "parsed"
  /\ skipping = FALSE
  /\ claimed = FALSE
  /\ task = NoTask

Min(S) == CHOOSE x \in S : \A y \in S : x <= y

\* ------------------------------------------------------------- envelopes
\* { type: 'status', data: { connected } }: data is "1" for connected, "0" for not
StatusPacket(b) == [type |-> "status", data |-> IF b THEN "1" ELSE "0"]
MessagePacket(d) == [type |-> "message", data |-> d]

\* ------------------------------------------------ worker.js: connection
Alive == {s \in SocketIds : sockets[s] # "none"}
FreeSockets == SocketIds \ Alive

\* readyState of the socket the websocket variable refers to
ReadyState == IF websocket = 0 THEN "null" ELSE sockets[websocket]

\* the broadcast() call up to its await: the call is suspended on matchAll
Suspend(q, packet, exclude) == q (+) SetToBag({[packet |-> packet, exclude |-> exclude]})

\* the guard without the test of connecting
ConnectGuard_connectedOnly == connected

\* line 154: if (connected || connecting) return;
ConnectGuard == connected \/ connecting

\* connect(), called by handler h (the head of the effect log)
connect(h) ==
  IF ConnectGuard
  THEN /\ effects' = <<h>>
       /\ UNCHANGED <<websocket, connecting, sockets>>
  ELSE /\ FreeSockets # {}
       /\ LET s == Min(FreeSockets) IN
            /\ connecting' = TRUE
            /\ websocket' = s
            /\ sockets' = [sockets EXCEPT ![s] = "connecting"]
            /\ effects' = <<h, <<"new WebSocket", s>>>>

\* the open handler without the reset of connecting
ConnectingAfterOpen_kept == connecting

\* line 163: connecting = false;
ConnectingAfterOpen == FALSE

\* websocket.onopen of socket s
onopen(s) ==
  /\ sockets[s] = "connecting"
  /\ BagCardinality(pending) < MaxPending
  /\ sockets' = [sockets EXCEPT ![s] = "open"]
  /\ connected' = TRUE
  /\ connecting' = ConnectingAfterOpen
  /\ pending' = Suspend(pending, StatusPacket(TRUE), 0)
  /\ effects' = <<<<"onopen", s>>, <<"broadcast", StatusPacket(TRUE)>>>>
  /\ UNCHANGED <<websocket, reconnectTimer, timers, clients, throwing, lastStatus>>
  /\ UNCHANGED svars

\* websocket.onmessage of socket s, the server sent envelope { type: 'message', data: d }
onmessage(s, d) ==
  /\ sockets[s] \in {"open", "closing"}
  /\ BagCardinality(pending) < MaxPending
  /\ pending' = Suspend(pending, MessagePacket(d), 0)
  /\ effects' = <<<<"onmessage", s>>, <<"broadcast", MessagePacket(d)>>>>
  /\ UNCHANGED <<websocket, connected, connecting, reconnectTimer, sockets,
                 timers, clients, throwing, lastStatus>>
  /\ UNCHANGED svars

\* the broadcast of the close handler without the test of connected
CloseBroadcasts_always == TRUE

\* line 176: if (connected) { connected = false; broadcast(...) }
CloseBroadcasts == connected

\* the close handler without clearTimeout
TimersAfterClear_noClear == timers

\* line 181: if (reconnectTimer) clearTimeout(reconnectTimer);
TimersAfterClear ==
  IF reconnectTimer # 0 THEN timers \ {reconnectTimer} ELSE timers

\* the close handler without the reset of connecting
ConnectingAfterClose_kept == connecting

\* line 180: connecting = false;
ConnectingAfterClose == FALSE

\* the close handler without the reset of connected
ConnectedAfterClose_kept == connected

\* line 177: connected = false; (the flag is false already when the test of
\* line 176 fails)
ConnectedAfterClose == FALSE

\* websocket.onclose of socket s: the close event of any socket that has not yet closed
onclose(s) ==
  /\ sockets[s] # "none"
  /\ CloseBroadcasts => BagCardinality(pending) < MaxPending
  /\ TimerIds \ TimersAfterClear # {}
  /\ sockets' = [sockets EXCEPT ![s] = "none"]
  /\ connected' = ConnectedAfterClose
  /\ pending' = IF CloseBroadcasts
                THEN Suspend(pending, StatusPacket(FALSE), 0)
                ELSE pending
  /\ connecting' = ConnectingAfterClose
  /\ LET t == Min(TimerIds \ TimersAfterClear) IN
       /\ timers' = TimersAfterClear \cup {t}
       /\ reconnectTimer' = t
       /\ effects' =
            <<<<"onclose", s, connected>>>>
            \o (IF CloseBroadcasts
                THEN <<<<"broadcast", StatusPacket(FALSE)>>>> ELSE <<>>)
            \o (IF reconnectTimer # 0
                THEN <<<<"clearTimeout", reconnectTimer, reconnectTimer \in timers>>>>
                ELSE <<>>)
            \o <<<<"setTimeout", t>>>>
  /\ UNCHANGED <<websocket, clients, throwing, lastStatus>>
  /\ UNCHANGED svars

\* the reconnect timer t fires: setTimeout(connect, 3000)
TimerFires(t) ==
  /\ t \in timers
  /\ timers' = timers \ {t}
  /\ connect(<<"timer", t>>)
  /\ UNCHANGED <<connected, reconnectTimer, clients, throwing, pending, lastStatus>>
  /\ UNCHANGED svars

\* ------------------------------------------------ worker.js: send
\* line 22: if (!connected) return false;  (TRUE = go on to websocket.send)
SendGuard == connected

\* send(packet): what the call returns and what websocket.send did with the
\* packet. websocket.send throws on a null reference and on a CONNECTING
\* socket, transmits on an OPEN one and discards on a CLOSING or CLOSED one.
send(packet) ==
  IF ~SendGuard
  THEN [ret |-> FALSE, called |-> FALSE, wrote |-> FALSE, threw |-> FALSE, ready |-> ReadyState]
  ELSE [ret |-> ReadyState \notin {"null", "connecting"},
        called |-> TRUE,
        wrote |-> ReadyState = "open",
        threw |-> ReadyState \in {"null", "connecting"},
        ready |-> ReadyState]

\* ------------------------------------------------ worker.js: broadcast
\* the enumerations clients.matchAll can resolve with: the open clients in any order
Enumerations(S) ==
  {f \in [1..Cardinality(S) -> S] : \A c \in S : \E i \in 1..Cardinality(S) : f[i] = c}

\* the loop without the test of the excluded id
Excluded_none(id, exclude) == FALSE

\* line 31: if (client.id !== exclude)
Excluded(id, exclude) == id = exclude

\* lines 30-35: the loop over the enumerated clients; the clients postMessage
\* was called for and returned, in order. A postMessage that throws ends the loop.
RECURSIVE Posts(_, _)
Posts(list, exclude) ==
  IF list = <<>> THEN <<>>
  ELSE IF Excluded(Head(list), exclude) THEN Posts(Tail(list), exclude)
  ELSE IF Head(list) \in throwing THEN <<>>
  ELSE <<Head(list)>> \o Posts(Tail(list), exclude)

Range(f) == {f[i] : i \in DOMAIN f}

\* how many times postMessage was called and returned, for each client
Delivered(posts) ==
  [c \in Clients |-> Cardinality({k \in 1..Len(posts) : posts[k] = c})]

\* the page-side receipt of the envelopes: a page keeps the last status
Receive(ls, got, packet) ==
  [c \in Clients |->
     IF got[c] > 0 /\ packet.type = "status" THEN {packet.data} ELSE ls[c]]

\* lines 28-35: matchAll of the suspended broadcast() call b resolves with the
\* open clients in some order and the rest of broadcast runs; got is what the
\* loop delivers for one of these orders. Nothing orders the suspended calls:
\* each awaits a matchAll promise of its own.
broadcast(b, got) ==
  /\ BagIn(b, pending)
  /\ got \in {Delivered(Posts(list, b.exclude)) : list \in Enumerations(clients)}
  /\ pending' = pending (-) SetToBag({b})
  /\ lastStatus' = Receive(lastStatus, got, b.packet)
  /\ effects' = <<<<"broadcast.resume", b.packet.type, b.exclude, clients, got>>>>
  /\ UNCHANGED <<websocket, connected, connecting, reconnectTimer, sockets,
                 timers, clients, throwing>>
  /\ UNCHANGED svars

\* ------------------------------------------------ worker.js: control messages
\* events.connect: the page asks for the status
events_connect(source) ==
  /\ source \in clients
  /\ lastStatus' = [lastStatus EXCEPT ![source] = {StatusPacket(connected).data}]
  /\ effects' = <<<<"events.connect">>, <<"postMessage">>>>
  /\ UNCHANGED <<websocket, connected, connecting, reconnectTimer, sockets,
                 timers, clients, throwing, pending>>
  /\ UNCHANGED svars

\* events.online
events_online ==
  /\ connect(<<"events.online">>)
  /\ UNCHANGED <<connected, reconnectTimer, timers, clients, throwing, pending, lastStatus>>
  /\ UNCHANGED svars

\* events.offline: if (connected) websocket.close(); close() starts the closing
\* handshake of a socket that has not started it, the close event comes later
events_offline ==
  /\ sockets' = IF connected /\ ReadyState \in {"connecting", "open"}
                THEN [sockets EXCEPT ![websocket] = "closing"]
                ELSE sockets
  /\ effects' = <<<<"events.offline">>>>
                 \o (IF connected THEN <<<<"close", websocket, ReadyState>>>> ELSE <<>>)
  /\ UNCHANGED <<websocket, connected, connecting, reconnectTimer, timers,
                 clients, throwing, pending, lastStatus>>
  /\ UNCHANGED svars

\* events.message: send(packet); broadcast(packet, source.id);
events_message(source, d) ==
  /\ source \in clients
  /\ BagCardinality(pending) < MaxPending
  /\ LET packet == MessagePacket(d)
         r == send(packet) IN
       /\ pending' = IF r.threw THEN pending ELSE Suspend(pending, packet, source)
       /\ effects' = <<<<"events.message", source, d>>, <<"send", r>>>>
                     \o (IF r.threw THEN <<>> ELSE <<<<"broadcast", packet>>>>)
  /\ UNCHANGED <<websocket, connected, connecting, reconnectTimer, sockets,
                 timers, clients, throwing, lastStatus>>
  /\ UNCHANGED svars

\* ------------------------------------------------ the pages
\* a page opens
ClientOpens(c) ==
  /\ c \notin clients
  /\ clients' = clients \cup {c}
  /\ effects' = <<>>
  /\ UNCHANGED <<websocket, connected, connecting, reconnectTimer, sockets,
                 timers, throwing, pending, lastStatus>>
  /\ UNCHANGED svars

\* a page closes
ClientCloses(c) ==
  /\ c \in clients
  /\ clients' = clients \ {c}
  /\ lastStatus' = [lastStatus EXCEPT ![c] = {}]
  /\ effects' = <<>>
  /\ UNCHANGED <<websocket, connected, connecting, reconnectTimer, sockets,
                 timers, throwing, pending>>
  /\ UNCHANGED svars

\* ------------------------------------------------ application.js: offline action queue
\* the doBackgroundSync runs that can be in progress together (one per sync event)
Runs == {"sync1", "sync2"}

\* handed holds the ids the run has passed to processOfflineAction so far
IdleRun == [pc |-> "idle", keys |-> <<>>, actions |-> <<>>, step |-> 0, handed |-> {}]

\* the request URL `/offline-actions/${id}`: its directory segments and its last segment
ActionKey(id) == [dir |-> <<"offline-actions">>, name |-> id]

\* line 336: key.url.includes('/offline-actions/')
IsActionKey(key) == \E i \in 1..Len(key.dir) : key.dir[i] = "offline-actions"

\* cache.match(key): the index of the record, 0 when there is none
Find(cache, key) ==
  IF \E i \in 1..Len(cache) : cache[i].key = key
  THEN CHOOSE i \in 1..Len(cache) : cache[i].key = key
  ELSE 0

\* a delete that deletes nothing
Delete_nothing(cache, key) == cache

\* cache.delete(key)
Delete(cache, key) == SelectSeq(cache, LAMBDA e : e.key # key)

\* cache.put(key, body): replaces the record of the key, the new record is the last
Put(cache, key, body) == Append(Delete(cache, key), [key |-> key, body |-> body])

\* cache.keys(): the keys in the order the cache holds them
Keys(cache) == [i \in 1..Len(cache) |-> cache[i].key]

\* the ids of the actions in the queue
Queued == {id \in ActionIds : Find(dynamic, ActionKey(id)) # 0}

\* JSON.stringify(message): the text of a message; a property that is undefined
\* (id 0: no id) is left out of the text
Stringify(message) == [format |-> "json", id |-> message.id, type |-> message.type, rev |-> 0]

\* response.json(): the value the text of a body parses to; a property the text
\* lacks is undefined in the value (id 0). A body that is not JSON makes it throw.
ParseThrows(text) == text.format # "json"

Parse(text) == [id |-> text.id, type |-> text.type]

\* line 324: new Response(text)
NewResponse(text) == [status |-> 200, type |-> "default", body |-> text]

\* line 321: if (!message || !message.id); id 0 is a message without an id
IdMissing(id) == id = 0

\* storeOfflineAction(message), run for a STORE_OFFLINE_ACTION control message;
\* the page draws the id of the message with generateId()
storeOfflineAction(id) ==
  /\ id \notin enqueued
  /\ id = 0 \/ \A j \in ActionIds : j < id => j \in enqueued
  /\ IF IdMissing(id)
     THEN /\ UNCHANGED <<dynamic, enqueued>>
          /\ effects' = <<<<"storeOfflineAction", id>>>>
     ELSE /\ dynamic' = Put(dynamic, ActionKey(id),
                            NewResponse(Stringify([id |-> id, type |-> "STORE_OFFLINE_ACTION"])))
          /\ enqueued' = enqueued \cup (ActionIds \cap {id})
          /\ effects' = <<<<"storeOfflineAction", id>>, <<"cache.put", ActionKey(id)>>>>
  /\ UNCHANGED <<sync, processed>>
  /\ UNCHANGED <<websocket, connected, connecting, reconnectTimer, sockets,
                 timers, clients, throwing, pending, lastStatus>>
  /\ UNCHANGED <<failing, statics, fetches, cvars>>

\* sw.js, lines 39-45 and 198-206: storeOfflineAction(event.data.action), which
\* has no guard. Without an action (has = FALSE) the read of action.id throws
\* after the cache is opened; an action without an id (id 0) is written under
\* the key the template makes of undefined, modelled as ActionKey(0).
sw_storeOfflineAction(has, id) ==
  /\ id \notin enqueued
  /\ id = 0 \/ \A j \in ActionIds : j < id => j \in enqueued
  /\ ~has => id = 0
  /\ IF ~has
     THEN /\ UNCHANGED <<dynamic, enqueued>>
          /\ effects' = <<<<"storeOfflineAction", id>>, <<"throw", "TypeError">>>>
     ELSE /\ dynamic' = Put(dynamic, ActionKey(id),
                            NewResponse(Stringify([id |-> id, type |-> "message"])))
          /\ enqueued' = enqueued \cup (ActionIds \cap {id})
          /\ effects' = <<<<"storeOfflineAction", id>>, <<"cache.put", ActionKey(id)>>>>
  /\ UNCHANGED <<sync, processed>>
  /\ UNCHANGED <<websocket, connected, connecting, reconnectTimer, sockets,
                 timers, clients, throwing, pending, lastStatus>>
  /\ UNCHANGED <<failing, statics, fetches, cvars>>

\* the sync listener: doBackgroundSync starts, up to the await of cache.keys()
SyncStarts(r) ==
  /\ sync[r].pc = "idle"
  /\ sync' = [sync EXCEPT ![r] = [IdleRun EXCEPT !.pc = "keys"]]
  /\ effects' = <<<<"sync", r>>>>
  /\ UNCHANGED <<dynamic, processed, enqueued>>
  /\ UNCHANGED <<websocket, connected, connecting, reconnectTimer, sockets,
                 timers, clients, throwing, pending, lastStatus>>
  /\ UNCHANGED <<failing, statics, fetches, cvars>>

\* getOfflineActions, lines 334-337: cache.keys() resolves, the keys are filtered
SyncKeys(r) ==
  /\ sync[r].pc = "keys"
  /\ sync' = [sync EXCEPT ![r].pc = "match",
                          ![r].keys = SelectSeq(Keys(dynamic), IsActionKey)]
  /\ effects' = <<<<"getOfflineActions.keys", r>>>>
  /\ UNCHANGED <<dynamic, processed, enqueued>>
  /\ UNCHANGED <<websocket, connected, connecting, reconnectTimer, sockets,
                 timers, clients, throwing, pending, lastStatus>>
  /\ UNCHANGED <<failing, statics, fetches, cvars>>

\* the ids of the queue records among the keys a run listed
Listed(run) == {id \in ActionIds : \E i \in 1..Len(run.keys) : run.keys[i] = ActionKey(id)}

\* getOfflineActions, lines 340-346: one turn of the loop; the record of the next
\* key is read and parsed. A key whose record is gone, or a body that is not
\* JSON, makes response.json() throw, which ends the run in the outer catch of
\* doBackgroundSync.
SyncMatch(r) ==
  /\ sync[r].pc = "match"
  /\ LET run == sync[r]
         n == Len(run.actions) IN
       IF n = Len(run.keys)
       THEN /\ sync' = [sync EXCEPT ![r].pc = IF n = 0 THEN "idle" ELSE "loop",
                                    ![r].step = 1]
            /\ effects' = <<<<"getOfflineActions.return", r>>>>
       ELSE LET i == Find(dynamic, run.keys[n + 1]) IN
              IF i = 0
              THEN /\ sync' = [sync EXCEPT ![r] = IdleRun]
                   /\ effects' = <<<<"doBackgroundSync.catch", r, Listed(run)>>>>
              ELSE IF ParseThrows(dynamic[i].body.body)
              THEN /\ sync' = [sync EXCEPT ![r] = IdleRun]
                   /\ effects' = <<<<"doBackgroundSync.catch", r, Listed(run)>>>>
              ELSE /\ sync' = [sync EXCEPT ![r].actions =
                                  Append(run.actions, Parse(dynamic[i].body.body))]
                   /\ effects' = <<<<"getOfflineActions.match", r>>>>
  /\ UNCHANGED <<dynamic, processed, enqueued>>
  /\ UNCHANGED <<websocket, connected, connecting, reconnectTimer, sockets,
                 timers, clients, throwing, pending, lastStatus>>
  /\ UNCHANGED <<failing, statics, fetches, cvars>>

\* the loop body with the two calls swapped
LoopBody_removeFirst == <<"remove", "process">>

\* lines 367-368: await processOfflineAction(action); await removeOfflineAction(action.id);
LoopBody == <<"process", "remove">>

\* the loop that does not move on to the next action
NextAction_repeat(run) ==
  IF Len(run.actions) = 1 THEN IdleRun
  ELSE [run EXCEPT !.step = 1]

\* the run after the last call of the loop body for its current action
NextAction(run) ==
  IF Len(run.actions) = 1 THEN IdleRun
  ELSE [run EXCEPT !.step = 1, !.actions = Tail(run.actions)]

\* the catch around the loop instead of inside it: a failure ends the run
AfterFailure_abort(run) == IdleRun

\* lines 369-371: the catch inside the loop logs the failure, the loop goes on
\* with the next action
AfterFailure(run) == NextAction(run)

\* doBackgroundSync, lines 365-372: one awaited call of the loop body for the
\* current action; processOfflineAction logs the action (and throws for the
\* actions in failing), removeOfflineAction deletes its record. The fourth
\* element of the effect tells whether the run had handed the id before; the
\* call after which the loop ends adds the return of doBackgroundSync with the
\* ids the run had listed.
SyncLoop(r) ==
  /\ sync[r].pc = "loop"
  /\ LET run == sync[r]
         action == Head(run.actions)
         call == LoopBody[run.step]
         last == run.step = Len(LoopBody)
         ran == IF call = "process" THEN [run EXCEPT !.handed = @ \cup {action.id}] ELSE run
         stepped == IF last THEN NextAction(ran) ELSE [ran EXCEPT !.step = run.step + 1]
         fails == call = "process" /\ action.id \in failing
         after == IF fails THEN AfterFailure(ran) ELSE stepped
         return == IF after.pc = "idle"
                   THEN <<<<"doBackgroundSync.return", r, Listed(run)>>>>
                   ELSE <<>> IN
       /\ sync' = [sync EXCEPT ![r] = after]
       /\ IF fails
          THEN /\ effects' = <<<<"process.catch", r, action.id, action.id \in run.handed>>>> \o return
               /\ UNCHANGED <<dynamic, processed>>
          ELSE IF call = "process"
          THEN /\ processed' = processed \cup {action.id}
               /\ effects' = <<<<"process", r, action.id, action.id \in run.handed>>>> \o return
               /\ UNCHANGED dynamic
          ELSE /\ dynamic' = Delete(dynamic, ActionKey(action.id))
               /\ effects' = <<<<"remove", r, action.id, FALSE>>>> \o return
               /\ UNCHANGED processed
  /\ UNCHANGED enqueued
  /\ UNCHANGED <<websocket, connected, connecting, reconnectTimer, sockets,
                 timers, clients, throwing, pending, lastStatus>>
  /\ UNCHANGED <<failing, statics, fetches, cvars>>

\* ------------------------------------------------ application.js: fetch handlers
\* a request URL of the origin: its directory segments and its last segment
Asset(name) == [dir |-> <<>>, name |-> name]
Api(name) == [dir |-> <<"api">>, name |-> name]

\* lines 285-293
STATIC_ASSETS ==
  <<Asset(""), Asset("index.html"), Asset("styles.css"), Asset("application.js"),
    Asset("database.js"), Asset("manifest.json"), Asset("icon.svg")>>

\* the URLs the pages request: a page that is not precached, the offline page
\* and an API endpoint
Urls == {Asset("page.html"), Asset("404.html"), Api("data")}

Requests ==
  [method : {"GET", "POST"}, protocol : {"https:", "ws:", "wss:"},
   url : Urls, destination : {"document", "script"}]

\* the body of no response
NoText == [format |-> "none", id |-> 0, type |-> "", rev |-> 0]

\* undefined or null in the place of a response
NoResponse == [status |-> 0, type |-> "none", body |-> NoText]

\* fetch() rejecting: the network is down or the origin unreachable
Rejected == [status |-> 0, type |-> "error", body |-> NoText]

\* the body the origin serves for a URL in revision rev
ResourceText(url, rev) ==
  [format |-> IF url.dir = <<"api">> THEN "json" ELSE "html",
   id |-> 0, type |-> "resource", rev |-> rev]

\* the answers of the network to fetch(request): a same-origin answer with
\* status 200 or 404, a cross-origin (cors) answer, an opaque answer (status
\* 0: of a no-cors request, or a redirect that is not followed), or a rejection
Outcomes(url) ==
  {Rejected} \cup
  {[status |-> a[1], type |-> a[2], body |-> ResourceText(url, rev)] :
     a \in {<<200, "basic">>, <<404, "basic">>, <<200, "cors">>}, rev \in Revs} \cup
  {[status |-> 0, type |-> "opaque", body |-> NoText]}

\* response.ok
Ok(response) == response.status \in 200..299

\* lines 312-316: new Response(JSON.stringify({ error: ... }), { status: 503, ... })
Offline503 ==
  [status |-> 503, type |-> "default",
   body |-> [format |-> "json", id |-> 0, type |-> "error", rev |-> 0]]

\* caches.match(request): the first record of the URL over the partitions in
\* the order they were created, NoResponse (undefined) when there is none
CachesMatch(url) ==
  IF Find(statics, url) # 0 THEN statics[Find(statics, url)].body
  ELSE IF Find(dynamic, url) # 0 THEN dynamic[Find(dynamic, url)].body
  ELSE NoResponse

\* the test of the scheme left out
PassesThrough_methodOnly(request) == request.method # "GET"

\* lines 444-445: if (request.method !== 'GET') return;
\*                if (url.protocol === 'ws:' || url.protocol === 'wss:') return;
PassesThrough(request) ==
  \/ request.method # "GET"
  \/ request.protocol \in {"ws:", "wss:"}

\* line 446: url.pathname.startsWith('/api/')
StartsWithApi(url) == Len(url.dir) >= 1 /\ url.dir[1] = "api"

\* lines 441-451: what the fetch listener does with a request
Route(request) ==
  IF PassesThrough(request) THEN "pass"
  ELSE IF StartsWithApi(request.url) THEN "api"
  ELSE "asset"

\* a handler suspended at an await: fetch (of the network), match (of
\* caches.match); put is the cache write of a handler that has returned
Handling(kind, request, pc) ==
  [kind |-> kind, url |-> request.url, destination |-> request.destination,
   pc |-> pc, net |-> NoResponse]

\* the fetch listener, lines 441-451, and the handler it calls up to its first
\* await: fetch(request) in handleApiRequest, caches.match(request) in handleFetch
fetchListener(request) ==
  /\ Route(request) # "pass" => Cardinality(fetches) < MaxFetches
  /\ fetches' =
       CASE Route(request) = "pass" -> fetches
         [] Route(request) = "api" -> fetches \cup {Handling("api", request, "fetch")}
         [] Route(request) = "asset" -> fetches \cup {Handling("asset", request, "match")}
  /\ effects' = <<<<"fetch", request, Route(request)>>>>
  /\ UNCHANGED <<dynamic, sync, processed, enqueued, failing, statics, cvars>>
  /\ UNCHANGED <<websocket, connected, connecting, reconnectTimer, sockets,
                 timers, clients, throwing, pending, lastStatus>>

\* handleApiRequest, lines 296-306: fetch(request) settles with outcome. An ok
\* response is put in the dynamic cache, the put is not awaited, and returned;
\* otherwise the handler goes on to caches.match(request).
handleApiRequest_fetch(h, outcome) ==
  /\ h \in fetches /\ h.kind = "api" /\ h.pc = "fetch"
  /\ IF outcome # Rejected /\ Ok(outcome)
     THEN /\ fetches' = (fetches \ {h}) \cup {[h EXCEPT !.pc = "put", !.net = outcome]}
          /\ effects' = <<<<"handleApiRequest", h.url, outcome>>,
                          <<"cache.put", h.url>>, <<"return", outcome>>>>
     ELSE /\ fetches' = (fetches \ {h}) \cup {[h EXCEPT !.pc = "match", !.net = outcome]}
          /\ effects' = <<<<"handleApiRequest", h.url, outcome>>, <<"caches.match", h.url>>>>
  /\ UNCHANGED <<dynamic, sync, processed, enqueued, failing, statics, cvars>>
  /\ UNCHANGED <<websocket, connected, connecting, reconnectTimer, sockets,
                 timers, clients, throwing, pending, lastStatus>>

\* the fallback without the synthesized response
ApiFallback_cacheOnly(url) == CachesMatch(url)

\* lines 308-316: the cached response when there is one, else the 503 response
ApiFallback(url) ==
  IF CachesMatch(url) # NoResponse THEN CachesMatch(url) ELSE Offline503

\* handleApiRequest, lines 308-317: caches.match(request) resolves, the handler returns
handleApiRequest_match(h) ==
  /\ h \in fetches /\ h.kind = "api" /\ h.pc = "match"
  /\ fetches' = fetches \ {h}
  /\ effects' = <<<<"handleApiRequest", h.url, h.net>>, <<"return", ApiFallback(h.url)>>>>
  /\ UNCHANGED <<dynamic, sync, processed, enqueued, failing, statics, cvars>>
  /\ UNCHANGED <<websocket, connected, connecting, reconnectTimer, sockets,
                 timers, clients, throwing, pending, lastStatus>>

\* the lookup that never hits
AssetLookup_miss(url) == NoResponse

\* line 415: caches.match(request)
AssetLookup(url) == CachesMatch(url)

\* handleFetch, lines 415-420: caches.match(request) resolves; a hit is
\* returned, a miss goes on to fetch(fetchRequest)
handleFetch_match(h) ==
  /\ h \in fetches /\ h.kind = "asset" /\ h.pc = "match"
  /\ IF AssetLookup(h.url) # NoResponse
     THEN /\ fetches' = fetches \ {h}
          /\ effects' = <<<<"handleFetch", h.url, h.net, h.destination>>, <<"return", AssetLookup(h.url)>>>>
     ELSE /\ fetches' = (fetches \ {h}) \cup {[h EXCEPT !.pc = "fetch"]}
          /\ effects' = <<<<"handleFetch", h.url, h.net, h.destination>>, <<"network", h.url>>>>
  /\ UNCHANGED <<dynamic, sync, processed, enqueued, failing, statics, cvars>>
  /\ UNCHANGED <<websocket, connected, connecting, reconnectTimer, sockets,
                 timers, clients, throwing, pending, lastStatus>>

\* the test of the type left out
Cacheable_anyType(response) == response.status = 200

\* lines 421-425: status 200 and type basic
Cacheable(response) == response.status = 200 /\ response.type = "basic"

\* every request treated as a navigation
Navigates_always(h) == TRUE

\* line 434: request.destination === 'document'
Navigates(h) == h.destination = "document"

\* handleFetch, lines 422-438: fetch(fetchRequest) settles with outcome. A
\* response that is not a same-origin 200 is returned as it is; a same-origin
\* 200 is put in the dynamic cache, the put is not awaited, and returned; a
\* rejection goes on to caches.match('/404.html') for a document and returns
\* null for anything else.
handleFetch_fetch(h, outcome) ==
  /\ h \in fetches /\ h.kind = "asset" /\ h.pc = "fetch"
  /\ IF outcome = Rejected /\ Navigates(h)
     THEN /\ fetches' = (fetches \ {h}) \cup {[h EXCEPT !.pc = "fallback", !.net = outcome]}
          /\ effects' = <<<<"handleFetch", h.url, outcome, h.destination>>,
                          <<"caches.match", Asset("404.html")>>>>
     ELSE IF outcome = Rejected
     THEN /\ fetches' = fetches \ {h}
          /\ effects' = <<<<"handleFetch", h.url, outcome, h.destination>>, <<"return", NoResponse>>>>
     ELSE IF ~Cacheable(outcome)
     THEN /\ fetches' = fetches \ {h}
          /\ effects' = <<<<"handleFetch", h.url, outcome, h.destination>>, <<"return", outcome>>>>
     ELSE /\ fetches' = (fetches \ {h}) \cup {[h EXCEPT !.pc = "put", !.net = outcome]}
          /\ effects' = <<<<"handleFetch", h.url, outcome, h.destination>>,
                          <<"cache.put", h.url>>, <<"return", outcome>>>>
  /\ UNCHANGED <<dynamic, sync, processed, enqueued, failing, statics, cvars>>
  /\ UNCHANGED <<websocket, connected, connecting, reconnectTimer, sockets,
                 timers, clients, throwing, pending, lastStatus>>

\* handleFetch, line 435: caches.match('/404.html') resolves and is returned,
\* undefined (NoResponse) when no partition holds the page
handleFetch_fallback(h) ==
  /\ h \in fetches /\ h.kind = "asset" /\ h.pc = "fallback"
  /\ fetches' = fetches \ {h}
  /\ effects' = <<<<"handleFetch", h.url, h.net, h.destination>>,
                  <<"return", CachesMatch(Asset("404.html"))>>>>
  /\ UNCHANGED <<dynamic, sync, processed, enqueued, failing, statics, cvars>>
  /\ UNCHANGED <<websocket, connected, connecting, reconnectTimer, sockets,
                 timers, clients, throwing, pending, lastStatus>>

\* lines 301 and 430: the cache.put(request, clone) a handler started completes
cachePut(h) ==
  /\ h \in fetches /\ h.pc = "put"
  /\ fetches' = fetches \ {h}
  /\ dynamic' = Put(dynamic, h.url, h.net)
  /\ effects' = <<<<"cache.put.done", h.url>>>>
  /\ UNCHANGED <<sync, processed, enqueued, failing, statics, cvars>>
  /\ UNCHANGED <<websocket, connected, connecting, reconnectTimer, sockets,
                 timers, clients, throwing, pending, lastStatus>>

\* ------------------------------------------------ worker.js: specification
\* the application.js state, not touched by worker.js
QueueIdle ==
  /\ dynamic = <<>>
  /\ sync = [r \in Runs |-> IdleRun]
  /\ processed = {}
  /\ enqueued = {}
  /\ failing = {}
  /\ statics = <<>>
  /\ CacheIdle
  /\ fetches = {}

\* lines 16-19 and the connect() call of line 229 that ends the script, with
\* the pages in open controlled or not and postMessage throwing for those in thr
InitWorker(open, thr) ==
  /\ websocket = 1
  /\ connected = FALSE
  /\ connecting = TRUE
  /\ reconnectTimer = 0
  /\ sockets = [s \in SocketIds |-> IF s = 1 THEN "connecting" ELSE "none"]
  /\ timers = {}
  /\ clients = open
  /\ throwing = thr
  /\ pending = EmptyBag
  /\ lastStatus = [c \in Clients |-> {}]
  /\ effects = <<<<"script">>, <<"new WebSocket", 1>>>>
  /\ QueueIdle

Init == InitWorker({}, {})

InitFail == \E thr \in SUBSET Clients : InitWorker({}, thr)

InitStay == \E open \in SUBSET Clients : InitWorker(open, {})

SocketOpens == \E s \in SocketIds : onopen(s)
SocketMessage == \E s \in SocketIds, d \in Data : onmessage(s, d)
SocketCloses == \E s \in SocketIds : onclose(s)
TimerFire == \E t \in TimerIds : TimerFires(t)
BroadcastResumes ==
  \E b \in BagToSet(pending) :
    \E got \in {Delivered(Posts(list, b.exclude)) : list \in Enumerations(clients)} :
      broadcast(b, got)
PageConnect == \E c \in Clients : events_connect(c)
PageMessage == \E c \in Clients, d \in Data : events_message(c, d)
PageOpens == \E c \in Clients : ClientOpens(c)
PageCloses == \E c \in Clients : ClientCloses(c)

Next ==
  \/ SocketOpens
  \/ SocketMessage
  \/ SocketCloses
  \/ TimerFire
  \/ BroadcastResumes
  \/ PageConnect
  \/ events_online
  \/ events_offline
  \/ PageMessage
  \/ PageOpens
  \/ PageCloses

Spec == Init /\ [][Next]_vars

SpecFail == InitFail /\ [][Next]_vars

\* the pages that are open when the worker starts, none opening later: every
\* open page has been open all along
NextStay ==
  \/ SocketOpens
  \/ SocketMessage
  \/ SocketCloses
  \/ TimerFire
  \/ BroadcastResumes
  \/ PageConnect
  \/ events_online
  \/ events_offline
  \/ PageMessage
  \/ PageCloses

SpecStay == InitStay /\ [][NextStay]_vars

\* the timer task is run once its delay has elapsed
LiveSpec == Init /\ [][Next]_vars /\ WF_vars(TimerFire)

\* ------------------------------------------------ application.js: specification
\* the worker.js state, not touched by the application.js worker
WorkerIdle ==
  /\ websocket = 0
  /\ connected = FALSE
  /\ connecting = FALSE
  /\ reconnectTimer = 0
  /\ sockets = [s \in SocketIds |-> "none"]
  /\ timers = {}
  /\ clients = {}
  /\ throwing = {}
  /\ pending = EmptyBag
  /\ lastStatus = [c \in Clients |-> {}]
  /\ effects = <<>>

InitSync == WorkerIdle /\ QueueIdle

StoreAction == \E id \in 0..MaxActions : storeOfflineAction(id)
SyncEvent == \E r \in Runs : SyncStarts(r)
SyncListsKeys == \E r \in Runs : SyncKeys(r)
SyncReads == \E r \in Runs : SyncMatch(r)
SyncLoops == \E r \in Runs : SyncLoop(r)

NextSync ==
  \/ StoreAction
  \/ SyncEvent
  \/ SyncListsKeys
  \/ SyncReads
  \/ SyncLoops

SyncSpec == InitSync /\ [][NextSync]_vars

\* the queue in an environment where processOfflineAction throws for the
\* actions in failing
InitSyncFail ==
  /\ WorkerIdle
  /\ dynamic = <<>>
  /\ sync = [r \in Runs |-> IdleRun]
  /\ processed = {}
  /\ enqueued = {}
  /\ failing \in SUBSET ActionIds
  /\ statics = <<>>
  /\ CacheIdle
  /\ fetches = {}

SyncFailSpec == InitSyncFail /\ [][NextSync]_vars

\* no doBackgroundSync run is in progress
Quiet == \A r \in Runs : sync[r].pc = "idle"

\* the queue with the pages enqueueing only between the drains
QuietStore == Quiet /\ StoreAction

\* a sync event with no drain in progress
LoneSync == Quiet /\ SyncEvent

\* one drain at a time and no enqueue during a drain
NextSeq ==
  \/ QuietStore
  \/ LoneSync
  \/ SyncListsKeys
  \/ SyncReads
  \/ SyncLoops

SeqSpec == InitSync /\ [][NextSeq]_vars

\* two overlapping drains and no enqueue during a drain
NextRace ==
  \/ QuietStore
  \/ SyncEvent
  \/ SyncListsKeys
  \/ SyncReads
  \/ SyncLoops

RaceSpec == InitSync /\ [][NextRace]_vars

\* ------------------------------------------------ application.js: fetch specification
\* the static partition after an install that completed: cache.addAll(STATIC_ASSETS)
Installed ==
  [i \in 1..Len(STATIC_ASSETS) |->
     [key |-> STATIC_ASSETS[i],
      body |-> [status |-> 200, type |-> "basic",
                body |-> ResourceText(STATIC_ASSETS[i], 1)]]]

\* the worker controlling pages, with its install completed or failed
InitFetch ==
  /\ WorkerIdle
  /\ dynamic = <<>>
  /\ sync = [r \in Runs |-> IdleRun]
  /\ processed = {}
  /\ enqueued = {}
  /\ failing = {}
  /\ statics \in {<<>>, Installed}
  /\ CacheIdle
  /\ fetches = {}

\* the requests the listener answers; the others leave the worker as it was.
\* The API endpoints are requested by scripts, not navigated to.
Handled ==
  {request \in Requests :
     /\ Route(request) # "pass"
     /\ StartsWithApi(request.url) => request.destination = "script"}

PageFetches == \E request \in Handled : fetchListener(request)
ApiSettles == \E h \in fetches : \E outcome \in Outcomes(h.url) : handleApiRequest_fetch(h, outcome)
ApiMatches == \E h \in fetches : handleApiRequest_match(h)
AssetMatches == \E h \in fetches : handleFetch_match(h)
AssetSettles == \E h \in fetches : \E outcome \in Outcomes(h.url) : handleFetch_fetch(h, outcome)
PutCompletes == \E h \in fetches : cachePut(h)

NextFetch ==
  \/ PageFetches
  \/ ApiSettles
  \/ ApiMatches
  \/ AssetMatches
  \/ AssetSettles
  \/ \E h \in fetches : handleFetch_fallback(h)
  \/ PutCompletes

FetchSpec == InitFetch /\ [][NextFetch]_vars

\* the fetch listener alone, run for every request
FetchEvent == \E request \in Requests : fetchListener(request)

NextRoute ==
  \/ FetchEvent

RouteSpec == InitFetch /\ [][NextRoute]_vars

\* ------------------------------------------------ application.js: queue and fetch handlers
\* the installed worker with its queue and its fetch handlers, one drain at a time
InitApp == InitFetch /\ statics = Installed

\* a page of the origin whose path has a directory named offline-actions
Guide == [dir |-> <<"docs", "offline-actions">>, name |-> "guide.html"]

\* the navigations and API calls of the pages of this worker
AppRequests ==
  [method : {"GET"}, protocol : {"https:"}, url : {Api("data"), Guide},
   destination : {"document"}]

AppFetches == \E request \in AppRequests : fetchListener(request)

AppSync == Quiet /\ SyncStarts("sync1")

NextApp ==
  \/ StoreAction
  \/ AppSync
  \/ SyncListsKeys
  \/ SyncReads
  \/ SyncLoops
  \/ AppFetches
  \/ ApiSettles
  \/ ApiMatches
  \/ AssetMatches
  \/ AssetSettles
  \/ \E h \in fetches : handleFetch_fallback(h)
  \/ PutCompletes

AppSpec == InitApp /\ [][NextApp]_vars

\* ------------------------------------------------ sw.js: specification
\* sw.js keeps the queue with the code of application.js (lines 47-91 and
\* 164-169) except for storeOfflineAction
sw_StoreAction == \E has \in BOOLEAN, id \in 0..MaxActions : sw_storeOfflineAction(has, id)

sw_Next ==
  \/ sw_StoreAction
  \/ SyncEvent
  \/ SyncListsKeys
  \/ SyncReads
  \/ SyncLoops

SwSpec == InitSync /\ [][sw_Next]_vars

\* ------------------------------------------------ application.js, sw.js: install
\* cache.addAll(urls) rejects, and stores nothing, when the fetch of one of
\* the urls fails
AddAllRejects(urls) == \E i \in 1..Len(urls) : urls[i] \in unreachable

\* the install of application.js (installServiceWorker) and of sw.js (the
\* promise chain of its listener): open the static partition, addAll, then
\* skipWaiting; the catch logs and the promise given to waitUntil resolves
InstallStatic(handler) ==
  /\ lifecycle = "parsed"
  /\ lifecycle' = "installed"
  /\ IF AddAllRejects(STATIC_ASSETS)
     THEN /\ effects' = <<<<handler>>, <<"cache.addAll", "rejected">>, <<"console.error">>>>
          /\ UNCHANGED <<statics, skipping>>
     ELSE /\ statics' = Installed
          /\ skipping' = TRUE
          /\ effects' = <<<<handler>>, <<"cache.addAll", "stored">>, <<"skipWaiting">>>>
  /\ UNCHANGED <<dynamic, sync, processed, enqueued, failing, fetches>>
  /\ UNCHANGED <<unreachable, partitions, cached, claimed, task>>
  /\ UNCHANGED <<websocket, connected, connecting, reconnectTimer, sockets, timers,
                 clients, throwing, pending, lastStatus>>

installServiceWorker == InstallStatic("installServiceWorker")

sw_install == InstallStatic("sw.install")

\* a worker that has not installed yet; the fetch of any of the static assets
\* may fail
InitInstall ==
  /\ WorkerIdle
  /\ dynamic = <<>>
  /\ sync = [r \in Runs |-> IdleRun]
  /\ processed = {}
  /\ enqueued = {}
  /\ failing = {}
  /\ statics = <<>>
  /\ fetches = {}
  /\ unreachable \in SUBSET Range(STATIC_ASSETS)
  /\ partitions = {}
  /\ cached = {}
  /\ lifecycle = "parsed"
  /\ skipping = FALSE
  /\ claimed = FALSE
  /\ task = NoTask

NextInstall ==
  \/ installServiceWorker
  \/ sw_install

InstallSpec == InitInstall /\ [][NextInstall]_vars

\* ------------------------------------------------ src/unnamed/part_001: the older worker
\* The older variant has the connect(), onopen and onmessage of worker.js and
\* the same control messages; its close and error handlers differ.  Envelopes
\* are modelled by their type and their connected or data field.
ErrorPacket == [type |-> "error", data |-> "error.message"]

\* lines 76-82, websocket.onclose of socket s: connected = false, the status
\* broadcast, then the timer; connecting is left as it is
old_onclose(s) ==
  /\ sockets[s] # "none"
  /\ BagCardinality(pending) < MaxPending
  /\ TimerIds \ TimersAfterClear # {}
  /\ sockets' = [sockets EXCEPT ![s] = "none"]
  /\ connected' = FALSE
  /\ pending' = Suspend(pending, StatusPacket(FALSE), 0)
  /\ LET t == Min(TimerIds \ TimersAfterClear) IN
       /\ timers' = TimersAfterClear \cup {t}
       /\ reconnectTimer' = t
       /\ effects' =
            <<<<"onclose", s, connected>>, <<"broadcast", StatusPacket(FALSE)>>>>
            \o (IF reconnectTimer # 0
                THEN <<<<"clearTimeout", reconnectTimer, reconnectTimer \in timers>>>>
                ELSE <<>>)
            \o <<<<"setTimeout", t>>>>
  /\ UNCHANGED <<websocket, connecting, clients, throwing, lastStatus>>
  /\ UNCHANGED svars

\* lines 84-87, websocket.onerror of socket s: the error event of a socket that
\* fails, fired before its close event
old_onerror(s) ==
  /\ sockets[s] # "none"
  /\ BagCardinality(pending) < MaxPending
  /\ pending' = Suspend(pending, ErrorPacket, 0)
  /\ effects' = <<<<"onerror", s>>, <<"broadcast", ErrorPacket>>>>
  /\ UNCHANGED <<websocket, connected, connecting, reconnectTimer, sockets,
                 timers, clients, throwing, lastStatus>>
  /\ UNCHANGED svars

OldNext ==
  \/ SocketOpens
  \/ SocketMessage
  \/ \E s \in SocketIds : old_onclose(s)
  \/ \E s \in SocketIds : old_onerror(s)
  \/ TimerFire
  \/ BroadcastResumes
  \/ events_online
  \/ events_offline
  \/ PageOpens
  \/ PageCloses

\* line 108: the script ends with connect()
OldSpec == Init /\ [][OldNext]_vars

\* ------------------------------------------------ worker.js: cache and lifecycle
\* line 1
CACHE == "v1"

\* lines 3-14
ASSETS ==
  <<Asset(""), Asset("index.html"), Asset("styles.css"), Asset("pwa.js"),
    Asset("domain.js"), Asset("worker.js"), Asset("manifest.json"), Asset("icon.svg"),
    Asset("favicon.ico"), Asset("404.html")>>

\* the partitions earlier generations of the worker left behind
Stale == {"v0", "static-v1"}

\* line 39, caches.open(CACHE) creates the partition when it does not exist;
\* the loop of updateCache starts at the first asset
NewTask(kind, source) ==
  [kind |-> kind, source |-> source, i |-> 1, tried |-> {}, deleting |-> {}, claiming |-> FALSE]

\* the install event: install() runs into updateCache()
install ==
  /\ lifecycle = "parsed"
  /\ task = NoTask
  /\ lifecycle' = "installing"
  /\ task' = NewTask("install", 0)
  /\ partitions' = partitions \cup {CACHE}
  /\ effects' = <<<<"install">>, <<"caches.open", CACHE>>>>
  /\ UNCHANGED <<unreachable, cached, skipping, claimed>>
  /\ UNCHANGED <<dynamic, sync, processed, enqueued, failing, statics, fetches>>
  /\ UNCHANGED <<websocket, connected, connecting, reconnectTimer, sockets, timers,
                 clients, throwing, pending, lastStatus>>

\* the catch that gives up on the remaining assets
AfterAddFailure_abort(i) == Len(ASSETS) + 1

\* lines 44-46: the catch logs and the loop goes on with the next asset
AfterAddFailure(i) == i + 1

\* lines 41-47, one turn of the loop of updateCache: cache.add(asset) fetches the
\* asset and stores the response, or rejects when the fetch fails
updateCache_add ==
  /\ task.kind \in {"install", "update"}
  /\ task.i <= Len(ASSETS)
  /\ LET asset == ASSETS[task.i] IN
       IF asset \in unreachable
       THEN /\ task' = [task EXCEPT !.i = AfterAddFailure(task.i),
                                    !.tried = task.tried \cup {asset}]
            /\ effects' = <<<<"cache.add", asset, "rejected">>, <<"console.error">>>>
            /\ UNCHANGED cached
       ELSE /\ task' = [task EXCEPT !.i = task.i + 1,
                                    !.tried = task.tried \cup {asset}]
            /\ cached' = cached \cup {asset}
            /\ effects' = <<<<"cache.add", asset, "stored">>>>
  /\ UNCHANGED <<unreachable, partitions, lifecycle, skipping, claimed>>
  /\ UNCHANGED <<dynamic, sync, processed, enqueued, failing, statics, fetches>>
  /\ UNCHANGED <<websocket, connected, connecting, reconnectTimer, sockets, timers,
                 clients, throwing, pending, lastStatus>>

\* lines 53-55: updateCache() returned, await self.skipWaiting(); install() returns
install_return ==
  /\ task.kind = "install"
  /\ task.i > Len(ASSETS)
  /\ skipping' = TRUE
  /\ lifecycle' = "installed"
  /\ task' = NoTask
  /\ effects' = <<<<"install.return", task.tried>>, <<"skipWaiting">>>>
  /\ UNCHANGED <<unreachable, partitions, cached, claimed>>
  /\ UNCHANGED <<dynamic, sync, processed, enqueued, failing, statics, fetches>>
  /\ UNCHANGED <<websocket, connected, connecting, reconnectTimer, sockets, timers,
                 clients, throwing, pending, lastStatus>>

\* the activate event, line 141: cleanupCache() runs up to its await of
\* caches.keys(), then self.clients.claim() is called; Promise.all waits for both
activate ==
  /\ lifecycle = "installed"
  /\ task = NoTask
  /\ lifecycle' = "activating"
  /\ task' = [NoTask EXCEPT !.kind = "activate", !.claiming = TRUE]
  /\ effects' = <<<<"activate">>, <<"caches.keys">>, <<"clients.claim">>>>
  /\ UNCHANGED <<unreachable, partitions, cached, skipping, claimed>>
  /\ UNCHANGED <<dynamic, sync, processed, enqueued, failing, statics, fetches>>
  /\ UNCHANGED <<websocket, connected, connecting, reconnectTimer, sockets, timers,
                 clients, throwing, pending, lastStatus>>

\* lines 110-116: caches.keys() resolves; caches.delete is called for every
\* name that is not CACHE
cleanupCache_keys ==
  /\ task.kind = "activate"
  /\ task.i = 0
  /\ task' = [task EXCEPT !.i = 1, !.deleting = partitions \ {CACHE}]
  /\ effects' = <<<<"cleanupCache.keys", partitions>>>>
  /\ UNCHANGED <<unreachable, partitions, cached, lifecycle, skipping, claimed>>
  /\ UNCHANGED <<dynamic, sync, processed, enqueued, failing, statics, fetches>>
  /\ UNCHANGED <<websocket, connected, connecting, reconnectTimer, sockets, timers,
                 clients, throwing, pending, lastStatus>>

\* line 115: one caches.delete(cacheName) takes effect
cachesDelete(name) ==
  /\ task.kind = "activate"
  /\ name \in task.deleting
  /\ partitions' = partitions \ {name}
  /\ task' = [task EXCEPT !.deleting = task.deleting \ {name}]
  /\ effects' = <<<<"caches.delete", name>>>>
  /\ UNCHANGED <<unreachable, cached, lifecycle, skipping, claimed>>
  /\ UNCHANGED <<dynamic, sync, processed, enqueued, failing, statics, fetches>>
  /\ UNCHANGED <<websocket, connected, connecting, reconnectTimer, sockets, timers,
                 clients, throwing, pending, lastStatus>>

\* line 141: self.clients.claim() takes effect, the open pages are controlled
clientsClaim ==
  /\ task.kind = "activate"
  /\ task.claiming
  /\ claimed' = TRUE
  /\ task' = [task EXCEPT !.claiming = FALSE]
  /\ effects' = <<<<"clients.claim.done", partitions>>>>
  /\ UNCHANGED <<unreachable, partitions, cached, lifecycle, skipping>>
  /\ UNCHANGED <<dynamic, sync, processed, enqueued, failing, statics, fetches>>
  /\ UNCHANGED <<websocket, connected, connecting, reconnectTimer, sockets, timers,
                 clients, throwing, pending, lastStatus>>

\* lines 141-142: Promise.all resolves when every delete and the claim are done
activate_return ==
  /\ task.kind = "activate"
  /\ task.i = 1
  /\ task.deleting = {}
  /\ ~task.claiming
  /\ lifecycle' = "activated"
  /\ task' = NoTask
  /\ effects' = <<<<"activate.return">>>>
  /\ UNCHANGED <<unreachable, partitions, cached, skipping, claimed>>
  /\ UNCHANGED <<dynamic, sync, processed, enqueued, failing, statics, fetches>>
  /\ UNCHANGED <<websocket, connected, connecting, reconnectTimer, sockets, timers,
                 clients, throwing, pending, lastStatus>>

\* events.updateCache, lines 207-210: the control message of page source
events_updateCache(source) ==
  /\ source \in clients
  /\ lifecycle = "activated"
  /\ task = NoTask
  /\ task' = NewTask("update", source)
  /\ partitions' = partitions \cup {CACHE}
  /\ effects' = <<<<"events.updateCache", source>>, <<"caches.open", CACHE>>>>
  /\ UNCHANGED <<unreachable, cached, lifecycle, skipping, claimed>>
  /\ UNCHANGED <<dynamic, sync, processed, enqueued, failing, statics, fetches>>
  /\ UNCHANGED <<websocket, connected, connecting, reconnectTimer, sockets, timers,
                 clients, throwing, pending, lastStatus>>

\* lines 210-211: updateCache() returned, the page is answered
events_updateCache_return ==
  /\ task.kind = "update"
  /\ task.i > Len(ASSETS)
  /\ task' = NoTask
  /\ effects' = <<<<"events.updateCache.return", task.source, task.tried>>,
                  <<"postMessage", task.source, "cacheUpdated">>>>
  /\ UNCHANGED <<unreachable, partitions, cached, lifecycle, skipping, claimed>>
  /\ UNCHANGED <<dynamic, sync, processed, enqueued, failing, statics, fetches>>
  /\ UNCHANGED <<websocket, connected, connecting, reconnectTimer, sockets, timers,
                 clients, throwing, pending, lastStatus>>

\* a new generation of the worker before its install event, with the pages
\* open, the partitions of earlier generations present and the fetch of any
\* of the assets failing
InitCache ==
  /\ websocket = 0
  /\ connected = FALSE
  /\ connecting = FALSE
  /\ reconnectTimer = 0
  /\ sockets = [s \in SocketIds |-> "none"]
  /\ timers = {}
  /\ clients = Clients
  /\ throwing = {}
  /\ pending = EmptyBag
  /\ lastStatus = [c \in Clients |-> {}]
  /\ effects = <<>>
  /\ dynamic = <<>>
  /\ sync = [r \in Runs |-> IdleRun]
  /\ processed = {}
  /\ enqueued = {}
  /\ failing = {}
  /\ statics = <<>>
  /\ fetches = {}
  /\ unreachable \in SUBSET Range(ASSETS)
  /\ partitions = Stale
  /\ cached = {}
  /\ lifecycle = "parsed"
  /\ skipping = FALSE
  /\ claimed = FALSE
  /\ task = NoTask

NextCache ==
  \/ install
  \/ updateCache_add
  \/ install_return
  \/ activate
  \/ cleanupCache_keys
  \/ \E name \in Stale : cachesDelete(name)
  \/ clientsClaim
  \/ activate_return
  \/ \E source \in Clients : events_updateCache(source)
  \/ events_updateCache_return

CacheSpec == InitCache /\ [][NextCache]_vars

\* ------------------------------------------------ application.js: the Application of the page
\* The fields this.websocket and this.connected of the page's Application are
\* held in websocket and connected, the sockets the page creates in sockets;
\* navigator.serviceWorker.controller is set when claimed is true.

\* the texts of the message input: empty, or a message
Contents == {"", "text"}

\* lines 116-126: connect() returns when connected is set, else creates a
\* socket and stores it in the field
Application_connect ==
  /\ IF connected
     THEN /\ effects' = <<<<"Application.connect">>>>
          /\ UNCHANGED <<websocket, sockets>>
     ELSE /\ FreeSockets # {}
          /\ LET s == Min(FreeSockets) IN
               /\ websocket' = s
               /\ sockets' = [sockets EXCEPT ![s] = "connecting"]
               /\ effects' = <<<<"Application.connect">>, <<"new WebSocket", s>>>>
  /\ UNCHANGED <<connected, connecting, reconnectTimer, timers, clients, throwing,
                 pending, lastStatus>>
  /\ UNCHANGED svars

\* lines 126-131, the onopen of socket s
Application_onopen(s) ==
  /\ sockets[s] = "connecting"
  /\ sockets' = [sockets EXCEPT ![s] = "open"]
  /\ connected' = TRUE
  /\ effects' = <<<<"Application.onopen", s>>>>
  /\ UNCHANGED <<websocket, connecting, reconnectTimer, timers, clients, throwing,
                 pending, lastStatus>>
  /\ UNCHANGED svars

\* lines 133-137, the onmessage of socket s: the message is logged
Application_onmessage(s) ==
  /\ sockets[s] \in {"open", "closing"}
  /\ effects' = <<<<"Application.onmessage", s>>>>
  /\ UNCHANGED <<websocket, connected, connecting, reconnectTimer, sockets, timers,
                 clients, throwing, pending, lastStatus>>
  /\ UNCHANGED svars

\* lines 139-144, the onclose of socket s: the close event of any socket the
\* page created, closed by the page, by the server or by a failure
Application_onclose(s) ==
  /\ sockets[s] # "none"
  /\ sockets' = [sockets EXCEPT ![s] = "none"]
  /\ connected' = FALSE
  /\ effects' = <<<<"Application.onclose", s>>>>
  /\ UNCHANGED <<websocket, connecting, reconnectTimer, timers, clients, throwing,
                 pending, lastStatus>>
  /\ UNCHANGED svars

\* lines 146-149, the onerror of socket s: the error is logged
Application_onerror(s) ==
  /\ sockets[s] # "none"
  /\ effects' = <<<<"Application.onerror", s>>>>
  /\ UNCHANGED <<websocket, connected, connecting, reconnectTimer, sockets, timers,
                 clients, throwing, pending, lastStatus>>
  /\ UNCHANGED svars

\* lines 152-156: disconnect() closes the socket of the field and clears the
\* field, and leaves this.connected as it is; close() starts the closing
\* handshake, the close event comes later
Application_disconnect ==
  /\ IF websocket = 0
     THEN /\ effects' = <<<<"Application.disconnect">>>>
          /\ UNCHANGED <<websocket, sockets>>
     ELSE /\ sockets' = IF ReadyState \in {"connecting", "open"}
                        THEN [sockets EXCEPT ![websocket] = "closing"]
                        ELSE sockets
          /\ websocket' = 0
          /\ effects' = <<<<"Application.disconnect">>, <<"close", websocket, ReadyState>>>>
  /\ UNCHANGED <<connected, connecting, reconnectTimer, timers, clients, throwing,
                 pending, lastStatus>>
  /\ UNCHANGED svars

\* line 173, this.websocket.send(text): a TypeError when the field is null, an
\* InvalidStateError when the socket is still connecting; the text is
\* transmitted by an open socket and discarded by a closing or closed one
SocketSend ==
  IF websocket = 0 THEN <<"throw", "TypeError", "websocket">>
  ELSE IF ReadyState = "connecting" THEN <<"throw", "InvalidStateError", websocket>>
  ELSE <<"send", websocket, ReadyState>>

\* lines 239-247, storeOfflineAction: the message is posted to the worker that
\* controls the page; a TypeError when no worker controls it
StoreOffline ==
  IF claimed THEN <<"postMessage", "STORE_OFFLINE_ACTION">>
  ELSE <<"throw", "TypeError", "controller">>

\* lines 158-180: sendMessage() with the text content in the input
Application_sendMessage(content) ==
  /\ effects' =
       <<<<"Application.sendMessage", content, connected>>>>
       \o (IF content = "" THEN <<>>
           ELSE IF connected THEN <<SocketSend>>
           ELSE <<StoreOffline>>)
  /\ UNCHANGED <<websocket, connected, connecting, reconnectTimer, sockets, timers,
                 clients, throwing, pending, lastStatus>>
  /\ UNCHANGED svars

\* lines 32-33: the page loaded, controlled by a worker or not
InitPage ==
  /\ WorkerIdle
  /\ dynamic = <<>>
  /\ sync = [r \in Runs |-> IdleRun]
  /\ processed = {}
  /\ enqueued = {}
  /\ failing = {}
  /\ statics = <<>>
  /\ fetches = {}
  /\ unreachable = {}
  /\ partitions = {}
  /\ cached = {}
  /\ lifecycle = "activated"
  /\ skipping = FALSE
  /\ claimed \in BOOLEAN
  /\ task = NoTask

NextPage ==
  \/ Application_connect
  \/ \E s \in SocketIds : Application_onopen(s)
  \/ \E s \in SocketIds : Application_onmessage(s)
  \/ \E s \in SocketIds : Application_onclose(s)
  \/ \E s \in SocketIds : Application_onerror(s)
  \/ Application_disconnect
  \/ \E content \in Contents : Application_sendMessage(content)

PageSpec == InitPage /\ [][NextPage]_vars

\* ================================================================ claims
\* the handler whose run produced the current state
Handler == IF effects = <<>> THEN "" ELSE effects[1][1]

\* the last handler did effect e (the name of an effect) as its k-th effect
Did(k, e) == k \in 1..Len(effects) /\ effects[k][1] = e

CreatedSocket == \E k \in 1..Len(effects) : Did(k, "new WebSocket")

\* C1: connect() creates a socket only when neither flag was set, so at every
\* moment at most one socket exists whose close event has not fired: the socket
\* the websocket variable refers to, and right after its creation it is the only
\* socket, connecting is set and connected is not.
C1_SingleSocket ==
  /\ Cardinality(Alive) <= 1
  /\ Alive \subseteq {websocket}
  /\ CreatedSocket => Alive = {websocket} /\ connecting /\ ~connected

\* the reconnect timer fired while the socket an 'online' message created was
\* still there, and connect() returned without creating a second one
C1_Witness == Handler = "timer" /\ ~CreatedSocket /\ Alive # {}

\* C2: at most one reconnect timer is pending, and it is the one the
\* reconnectTimer handle names: a close cancels the pending timer before it
\* schedules the next.
C2_SingleTimer ==
  /\ Cardinality(timers) <= 1
  /\ timers \subseteq {reconnectTimer}

\* a second close event arrived while the timer of the first had not fired
C2_Witness ==
  /\ Handler = "onclose"
  /\ \E k \in 1..Len(effects) : Did(k, "clearTimeout") /\ effects[k][3]
  /\ Cardinality(timers) = 1

\* C3: after every socket close event a new socket is eventually created, given
\* that the timer task eventually runs.
C3_Reconnects == (Handler = "onclose") ~> CreatedSocket

\* the timer of a socket that closed without ever opening fired and connect()
\* created the next socket
C3_Witness == Handler = "timer" /\ CreatedSocket /\ reconnectTimer # 0

\* the result of the send() call of the last events.message handler
LastSend == effects[2][2]

\* C4: send writes to the socket only when the socket is open; with the socket
\* idle, connecting or closing it returns false without calling websocket.send
\* and without throwing, and it returns true only when the packet was handed to
\* an open socket.
C4_SendOnlyWhenOpen ==
  Handler = "events.message" =>
    /\ LastSend.ready # "open" =>
         ~LastSend.ret /\ ~LastSend.called /\ ~LastSend.threw
    /\ LastSend.ret => LastSend.wrote

\* the last handler called broadcast(packet) for all clients, as its k-th effect
Broadcasts(k, packet) ==
  /\ Did(k, "broadcast")
  /\ effects[k][2] = packet
  /\ BagIn([packet |-> packet, exclude |-> 0], pending)

\* C5 as stated: every open event broadcasts connected = true and every close
\* event, also that of a socket that never opened, broadcasts connected = false
\* before the reconnect is scheduled.
C5_EveryCloseBroadcasts ==
  /\ Handler = "onopen" => Broadcasts(2, StatusPacket(TRUE))
  /\ Handler = "onclose" =>
       /\ Broadcasts(2, StatusPacket(FALSE))
       /\ \E k \in 3..Len(effects) : Did(k, "setTimeout")

\* C5 amended: every open event broadcasts connected = true; a close event that
\* finds connected set broadcasts connected = false before the reconnect is
\* scheduled; a close event that finds it unset (the socket never opened)
\* broadcasts nothing and schedules the reconnect.
C5_StatusBroadcasts ==
  /\ Handler = "onopen" => Broadcasts(2, StatusPacket(TRUE))
  /\ Handler = "onclose" =>
       /\ effects[1][3] =>
            /\ Broadcasts(2, StatusPacket(FALSE))
            /\ \E k \in 3..Len(effects) : Did(k, "setTimeout")
       /\ ~effects[1][3] =>
            /\ \A k \in 1..Len(effects) : ~Did(k, "broadcast")
            /\ Did(Len(effects), "setTimeout")

\* an open socket closed
C5_Witness == Handler = "onclose" /\ effects[1][3] /\ BagCardinality(pending) = 1

\* C6: a resumed broadcast delivers the packet exactly once to every client
\* that is open when the enumeration resolves, except the excluded one, and to
\* nobody else; the broadcast of a page message excludes the sender.
C6_BroadcastExcludesSender ==
  /\ Handler = "broadcast.resume" =>
       \A c \in Clients :
         effects[1][5][c] = IF c \in effects[1][4] /\ c # effects[1][3] THEN 1 ELSE 0
  /\ Handler = "events.message" /\ ~LastSend.threw =>
       BagIn([packet |-> MessagePacket(effects[1][3]), exclude |-> effects[1][2]], pending)

\* a page message was delivered with all pages open, the sender among them
C6_Witness ==
  /\ Handler = "broadcast.resume"
  /\ clients = Clients
  /\ effects[1][3] \in clients
  /\ \A c \in Clients \ {effects[1][3]} : effects[1][5][c] = 1

\* C7: a postMessage that throws for one client does not keep the packet from
\* the other enumerated clients: every enumerated client that is not excluded
\* and whose own postMessage does not throw gets the packet.
C7_FailureIsolated ==
  Handler = "broadcast.resume" =>
    \A c \in effects[1][4] :
      c # effects[1][3] /\ c \notin throwing => effects[1][5][c] >= 1

\* C8: once no broadcast is pending, the last status envelope received by each
\* client that stayed open (under SpecStay: each open client) equals the
\* connected flag of the worker.
C8_StatusConverges ==
  pending = EmptyBag =>
    \A c \in clients :
      lastStatus[c] # {} => lastStatus[c] = {StatusPacket(connected).data}

\* C9: a page message is sent on the open socket or stored as an offline
\* action; none is dropped.
C9_SentOrQueued ==
  Handler = "events.message" =>
    \/ LastSend.wrote
    \/ \E i \in 1..Len(dynamic) : IsActionKey(dynamic[i].key)

\* C10: an action leaves the queue only after processOfflineAction, the hand-off
\* of the drain, has completed for it: every enqueued action that is no longer
\* in the queue has been processed, and a removal is of a processed action.
C10_RemovedAfterProcessed ==
  /\ \A id \in enqueued : id \notin Queued => id \in processed
  /\ Handler = "remove" => effects[1][3] \in processed

\* one action has been drained while a later one is still queued
C10_Witness ==
  /\ \E id \in enqueued : id \notin Queued /\ id \in processed
  /\ Queued # {}

\* C11: storeOfflineAction run for a STORE_OFFLINE_ACTION message without an
\* action or with an action that has no id writes nothing under
\* /offline-actions/ and throws nothing; run with an id it writes exactly the
\* record /offline-actions/<id>. Stated of application.js (SyncSpec) and of
\* sw.js (SwSpec).
C11_StoreNeedsId ==
  Handler = "storeOfflineAction" =>
    IF effects[1][2] = 0
    THEN /\ Len(effects) = 1
         /\ Find(dynamic, ActionKey(0)) = 0
    ELSE /\ Len(effects) = 2
         /\ Did(2, "cache.put")
         /\ effects[2][2] = ActionKey(effects[1][2])
         /\ Find(dynamic, ActionKey(effects[1][2])) # 0

\* the record storeOfflineAction wrote for action id
StoredRecord(id) ==
  [key |-> ActionKey(id),
   body |-> NewResponse(Stringify([id |-> id, type |-> "STORE_OFFLINE_ACTION"]))]

\* the doBackgroundSync run the last handler belongs to
LastRun == sync[effects[1][2]]

\* C12: in the application.js worker an enqueued action stays in the queue
\* until processOfflineAction has completed for it in a drain: through the
\* cache writes of the fetch handlers, the enqueues of other ids and the drains
\* its record /offline-actions/<id> is there as it was written, the key listing
\* of getOfflineActions lists it, and getOfflineActions, which with one drain
\* at a time never rejects, returns the action of every queue key it listed.
C12_QueuedUntilProcessed ==
  /\ \A id \in enqueued \ processed :
       /\ Find(dynamic, ActionKey(id)) # 0
       /\ dynamic[Find(dynamic, ActionKey(id))] = StoredRecord(id)
  /\ Handler = "getOfflineActions.keys" =>
       enqueued \ processed \subseteq Listed(LastRun)
  /\ Handler = "getOfflineActions.return" /\ LastRun.pc = "loop" =>
       Listed(LastRun) \subseteq {LastRun.actions[i].id : i \in 1..Len(LastRun.actions)}
  /\ enqueued \ processed # {} => Handler # "doBackgroundSync.catch"

\* C13: a replay that throws does not stop the drain: when a drain returns,
\* every action it listed whose replay does not throw has been processed and
\* removed, every listed action whose replay throws is still queued, and no
\* action is handed to processOfflineAction twice in one drain.
C13_FailureSkipsOnlyItself ==
  /\ \A k \in 1..Len(effects) :
       Did(k, "doBackgroundSync.return") =>
         \A id \in effects[k][3] :
           IF id \in failing
           THEN id \in Queued /\ id \notin processed
           ELSE id \notin Queued /\ id \in processed
  /\ Handler \in {"process", "process.catch"} => ~effects[1][4]

\* a drain of three actions returned, the replay of the first of them threw
C13_Witness ==
  /\ failing = {1}
  /\ Handler = "remove"
  /\ Did(2, "doBackgroundSync.return")
  /\ effects[2][3] = {1, 2, 3}
  /\ processed = {2, 3}

\* C14: with every replay succeeding and no enqueue during a drain, the queue
\* is empty when a drain returns, and a drain that starts on the empty queue
\* calls processOfflineAction and removeOfflineAction for nothing and leaves
\* the cache and the processed actions as they were.
C14_DrainIdempotent ==
  /\ [](\A k \in 1..Len(effects) :
         Did(k, "doBackgroundSync.return") =>
           \A i \in 1..Len(dynamic) : ~IsActionKey(dynamic[i].key))
  /\ [][(~Quiet /\ \A i \in 1..Len(dynamic) : ~IsActionKey(dynamic[i].key)) =>
          /\ dynamic' = dynamic
          /\ processed' = processed
          /\ effects'[1][1] \in {"getOfflineActions.keys", "getOfflineActions.return"}]_vars

\* the second drain after a drain of the whole queue returned with no action
C14_Witness ==
  /\ Handler = "getOfflineActions.return"
  /\ Quiet
  /\ enqueued = ActionIds
  /\ processed = ActionIds
  /\ dynamic = <<>>

\* C15: two drains that overlap, with every replay succeeding and no enqueue
\* during them: no action leaves the queue unprocessed, the removal of a record
\* that is already gone changes nothing and ends no run, the queue is empty
\* once the last of the runs has ended, and no run hands an action to
\* processOfflineAction twice.
C15_OverlappingDrains ==
  /\ \A id \in enqueued : id \notin Queued => id \in processed
  /\ Handler = "remove" => effects[1][3] \notin Queued
  /\ Quiet /\ Handler \in {"remove", "doBackgroundSync.catch", "getOfflineActions.return"} =>
       Queued = {}
  /\ Handler = "process" => ~effects[1][4]

\* both runs are in their loops and have handed the same action: it was
\* processed twice, and the second removal finds the record gone
C15_Witness ==
  /\ \A r \in Runs : sync[r].pc = "loop"
  /\ sync["sync1"].handed \cap sync["sync2"].handed # {}
  /\ Handler = "remove"
  /\ Cardinality(enqueued) >= 2

\* C16: the fetch listener puts every request in exactly one of three classes
\* by its method, the scheme of its URL and the start of its path only: a
\* request that is not a GET or whose scheme is ws: or wss: is passed through
\* with no handler run; a GET whose path starts with /api/ goes to
\* handleApiRequest; every other GET goes to handleFetch.
C16_RouteClassifies ==
  Handler = "fetch" =>
    LET request == effects[1][2]
        route == effects[1][3]
        started == {h \in fetches : h.url = request.url /\ h.net = NoResponse} IN
      IF request.method # "GET" \/ request.protocol \in {"ws:", "wss:"}
      THEN route = "pass"
      ELSE IF request.url.dir # <<>> /\ Head(request.url.dir) = "api"
      THEN route = "api" /\ \E h \in started : h.kind = "api" /\ h.pc = "fetch"
      ELSE route = "asset" /\ \E h \in started : h.kind = "asset" /\ h.pc = "match"

\* a GET of an /api/ path over wss: was passed through
C16_Witness ==
  /\ Handler = "fetch"
  /\ effects[1][2].method = "GET"
  /\ effects[1][2].protocol = "wss:"
  /\ effects[1][2].url = Api("data")
  /\ effects[1][3] = "pass"

\* the response the last handler returned
Returned == effects[Len(effects)][2]

\* the last handler returned a response
Returns == Did(Len(effects), "return")

\* C17: when handleApiRequest returns the response of a network fetch that
\* succeeded, the dynamic partition already holds a copy of it under the
\* request.
C17_CachedBeforeReturn ==
  Handler = "handleApiRequest" /\ Returns /\ Did(2, "cache.put") =>
    /\ Find(dynamic, effects[1][2]) # 0
    /\ dynamic[Find(dynamic, effects[1][2])].body = Returned

\* C18: when the network fetch of handleApiRequest rejects, the handler throws
\* nothing and returns the cached copy of the request if a partition holds
\* one, else the 503 JSON response.
C18_OfflineFallback ==
  Handler = "handleApiRequest" /\ effects[1][3] = Rejected =>
    /\ \A k \in 1..Len(effects) : ~Did(k, "throw")
    /\ Returns \/ Did(2, "caches.match")
    /\ Returns =>
         Returned = IF CachesMatch(effects[1][2]) # NoResponse
                    THEN CachesMatch(effects[1][2])
                    ELSE Offline503

\* the network fetch rejected and the copy an earlier fetch had cached was returned
C18_Witness ==
  /\ Handler = "handleApiRequest"
  /\ effects[1][3] = Rejected
  /\ Returns
  /\ Find(dynamic, effects[1][2]) # 0
  /\ Returned = dynamic[Find(dynamic, effects[1][2])].body

\* C19: handleApiRequest returns the 503 response only when the network fetch
\* failed and no partition holds a copy of the request; when the origin
\* answered, with whatever status, the response returned has the status of
\* that answer.
C19_OriginStatusKept ==
  Handler = "handleApiRequest" /\ Returns =>
    /\ Returned = Offline503 =>
         effects[1][3] = Rejected /\ CachesMatch(effects[1][2]) = NoResponse
    /\ effects[1][3] # Rejected => Returned.status = effects[1][3].status

\* C20: handleFetch answers a request that has a record in a cache with that
\* record, without a network fetch and without a cache write.
C20_CacheHitOnly ==
  Handler = "handleFetch" /\ effects[1][3] = NoResponse
    /\ CachesMatch(effects[1][2]) # NoResponse =>
      /\ Len(effects) = 2
      /\ Returns
      /\ Returned = CachesMatch(effects[1][2])

\* a page that an earlier fetch had cached in the dynamic partition was
\* requested again and answered from there
C20_Witness ==
  /\ Handler = "handleFetch"
  /\ effects[1][3] = NoResponse
  /\ Returns
  /\ effects[1][2] = Asset("page.html")
  /\ Find(dynamic, effects[1][2]) # 0
  /\ Returned = dynamic[Find(dynamic, effects[1][2])].body

\* C21: on a cache miss handleFetch returns the response of the network as it
\* is and starts a write to the dynamic partition only for a response with
\* status 200 and type basic: every record under an asset URL in the dynamic
\* partition has status 200 and type basic, an opaque or error response is
\* never cached.
C21_CachesOnlyBasic200 ==
  /\ Handler = "handleFetch" /\ Returns /\ effects[1][3] \notin {NoResponse, Rejected} =>
       /\ Returned = effects[1][3]
       /\ Did(2, "cache.put") <=> Returned.status = 200 /\ Returned.type = "basic"
  /\ \A i \in 1..Len(dynamic) :
       ~StartsWithApi(dynamic[i].key) =>
         dynamic[i].body.status = 200 /\ dynamic[i].body.type = "basic"

\* a cross-origin answer with status 200 was returned and not written
C21_Witness ==
  /\ Handler = "handleFetch"
  /\ Returns
  /\ effects[1][3].status = 200
  /\ effects[1][3].type = "cors"
  /\ Returned = effects[1][3]
  /\ Len(effects) = 2

\* C22: when the network fetch of handleFetch for an uncached request rejects,
\* the handler throws nothing; for a request that is not a navigation it
\* returns no response; for a navigation it returns the offline page
\* /404.html when a partition holds it.
C22_FailedFetchFallback ==
  Handler = "handleFetch" /\ effects[1][3] = Rejected =>
    /\ \A k \in 1..Len(effects) : ~Did(k, "throw")
    /\ effects[1][4] # "document" => Returns /\ Returned = NoResponse
    /\ effects[1][4] = "document" =>
         /\ Returns \/ Did(2, "caches.match")
         /\ Returns /\ CachesMatch(Asset("404.html")) # NoResponse =>
              Returned = CachesMatch(Asset("404.html"))

\* a navigation to an uncached page failed and was answered with the offline
\* page, which an earlier request had cached
C22_Witness ==
  /\ Handler = "handleFetch"
  /\ effects[1][2] = Asset("page.html")
  /\ effects[1][3] = Rejected
  /\ effects[1][4] = "document"
  /\ Returns
  /\ Find(dynamic, Asset("404.html")) # 0
  /\ Returned = dynamic[Find(dynamic, Asset("404.html"))].body

\* C30: after an install that completed, a navigation to an uncached URL
\* whose network fetch fails is answered with the offline page /404.html.
C30_OfflinePageInstalled ==
  /\ statics = Installed
  /\ Handler = "handleFetch"
  /\ effects[1][3] = Rejected
  /\ effects[1][4] = "document"
  /\ Returns
  => Returned # NoResponse

\* C24: every install of the application.js worker (and of sw.js) signals
\* skipWaiting and leaves in the static partition every asset whose fetch
\* did not fail.
C24_InstallToleratesFailure ==
  Handler \in {"installServiceWorker", "sw.install"} =>
    /\ skipping
    /\ \A i \in 1..Len(STATIC_ASSETS) :
         STATIC_ASSETS[i] \notin unreachable => Find(statics, STATIC_ASSETS[i]) # 0

\* C26: when a record that getOfflineActions listed cannot be read or parsed,
\* every other action the drain listed is still processed and removed by
\* that drain.
C26_UnreadableRecordSkipped ==
  Handler = "doBackgroundSync.catch" =>
    \A id \in effects[1][3] : id \in processed /\ id \notin Queued

\* C27: getOfflineActions lists exactly the records storeOfflineAction wrote
\* and no drain has removed, never a response a fetch handler cached; a drain
\* removes only the records of actions it has processed.
C27_OnlyStoredActionsListed ==
  /\ Handler = "getOfflineActions.keys" =>
       /\ \A i \in 1..Len(LastRun.keys) :
            \E id \in enqueued : LastRun.keys[i] = ActionKey(id)
       /\ \A id \in Queued : id \in Listed(LastRun)
  /\ Handler = "remove" => effects[1][3] \in processed

\* C28: in worker.js connected and connecting are never both true, and while
\* connected is true the websocket variable refers to a socket that has
\* opened and whose close event has not fired.
C28_FlagsEncodeState ==
  /\ ~(connected /\ connecting)
  /\ connected => websocket # 0 /\ sockets[websocket] \in {"open", "closing"}

\* connected is still true for a socket whose closing handshake has started
C28_Witness == connected /\ ~connecting /\ ReadyState = "closing"

\* C29: in the older variant connecting is set only while a socket is being
\* opened, and a connect() call made by the reconnect timer or by an 'online'
\* message leaves a socket in progress or open: it creates one when none is.
C29_ReconnectsAfterClose ==
  /\ connecting => \E s \in SocketIds : sockets[s] = "connecting"
  /\ Handler \in {"timer", "events.online"} => Alive # {}

\* C23: updateCache of worker.js calls cache.add for every asset whatever
\* fetches fail and leaves every asset whose fetch succeeds in the cache; the
\* install then calls skipWaiting and completes, and a manual update answers
\* the page that asked with cacheUpdated.
C23_UpdateToleratesFailure ==
  /\ Handler \in {"install.return", "events.updateCache.return"} =>
       /\ effects[1][Len(effects[1])] = Range(ASSETS)
       /\ Range(ASSETS) \ unreachable \subseteq cached
  /\ Handler = "install.return" =>
       Did(2, "skipWaiting") /\ skipping /\ lifecycle = "installed"
  /\ Handler = "events.updateCache.return" =>
       /\ Did(2, "postMessage")
       /\ effects[2][2] = effects[1][2]
       /\ effects[2][3] = "cacheUpdated"

\* after an install that completed, a manual update was answered although
\* the fetch of the first and of another asset failed
C23_Witness ==
  /\ Handler = "events.updateCache.return"
  /\ Asset("") \in unreachable
  /\ Cardinality(unreachable) = 2
  /\ Cardinality(cached) = Len(ASSETS) - 2
  /\ skipping

\* C25: in the activate of worker.js clients.claim() takes effect only when
\* no partition with a name other than CACHE exists, and when the activation
\* completes only the partition CACHE exists.
C25_ClaimAfterCleanup ==
  /\ Handler = "clients.claim.done" => partitions \subseteq {CACHE}
  /\ Handler = "activate.return" => partitions \subseteq {CACHE} /\ claimed

\* the open or close handler that just ran issued the status envelope with
\* connected = b
IssuedStatus(b) ==
  /\ Handler \in {"onopen", "onclose"}
  /\ \E k \in 2..Len(effects) : Did(k, "broadcast") /\ effects[k][2] = StatusPacket(b)

\* C31: the status envelopes of the connection manager alternate, starting
\* with connected = true.  The flag starts false; every step that issues an
\* envelope flips the flag to the value the envelope carries, and every step
\* that flips the flag issues the envelope of the new value, so consecutive
\* envelopes carry different values and the first carries true.
C31_StatusAlternates ==
  /\ ~connected
  /\ [][/\ IssuedStatus(TRUE)' <=> ~connected /\ connected'
        /\ IssuedStatus(FALSE)' <=> connected /\ ~connected']_vars

\* a socket opened after an earlier one had closed: the envelope with
\* connected = true is issued again
C31_Witness ==
  /\ Handler = "onopen"
  /\ IssuedStatus(TRUE)
  /\ reconnectTimer # 0

\* C32: in the Application of the page, while connected is true the websocket
\* field refers to a socket that has opened and whose close event has not
\* fired; on a page that a worker controls, sendMessage with a message never
\* throws: it sends the message on that socket or stores it as an offline
\* action.
C32_ConnectedHasLiveSocket ==
  /\ connected => websocket # 0 /\ sockets[websocket] \in {"open", "closing"}
  /\ claimed /\ Handler = "Application.sendMessage" /\ effects[1][2] # "" =>
       \/ Did(2, "send")
       \/ Did(2, "postMessage")
====
